---- MODULE Spec2Model ----
(***************************************************************************)
(* Model of the terminal session core of qmltermwidget:                    *)
(*   - ExtendedCharTable  (Emulation.cpp, glyph intern table)              *)
(*   - Emulation          (Emulation.cpp, session controller and the       *)
(*                         two-timer update scheduler)                     *)
(*   - HistorySearch      (HistorySearch.cpp, one-shot search over the     *)
(*                         lines of the emulation)                         *)
(***************************************************************************)
EXTENDS Integers, Sequences, FiniteSets, TLC

VARIABLES
    extendedCharTable,  \* ExtendedCharTable::extendedCharTable : hash -> buffer
    issued,             \* history: sequence -> set of handles createExtendedChar returned for it
    lastTableCall,      \* history: the last call made on the table and its result
    screen,             \* Emulation::_screen[2]
    currentScreen,      \* Emulation::_currentScreen, as the index of the screen it points to
    windows,            \* Emulation::_windows: the screen each ScreenWindow is bound to
    decoder,            \* Emulation::_decoder: bytes of an unfinished character
    bulkTimer1,         \* Emulation::_bulkTimer1: ms left, Inactive when stopped
    bulkTimer2,         \* Emulation::_bulkTimer2: ms left, Inactive when stopped
    effects,            \* history: signals emitted and collaborator calls made by the last handler
    lastCall,           \* history: the last handler that ran, with its arguments
    sched,              \* history: the changes not flushed yet and the last flush
    stream,             \* history: the run of updates since the first bufferedUpdate
    ingestCalls,        \* history: number of receiveData calls so far
    buffer,             \* the lines the emulation holds (history and screen), as writeToStream reads them
    historySearch,      \* the HistorySearch task: its members and its place in its life
    searchTrace         \* history: the blocks the task read and the signals it emitted

tableVars == <<extendedCharTable, issued, lastTableCall>>

emuVars == <<screen, currentScreen, windows, decoder, bulkTimer1, bulkTimer2,
             effects, lastCall, sched, stream, ingestCalls>>

searchVars == <<buffer, historySearch, searchTrace>>

vars == <<tableVars, emuVars, searchVars>>

-----------------------------------------------------------------------------
(* ExtendedCharTable                                                       *)

\* ushort is 16 bits wide: arithmetic on handles is modulo 2^16
UShortRange == 65536

\* the most entries the table is allowed to hold in the model
MaxEntries == 4

\* The sequences interned in the model.  <<31>>, <<1,0>>, <<0,31>> and
\* <<0,0,31>> hash to 31 and <<32>> to the slot next to it; <<65535>> and
\* <<0,65535>> hash to the last slot, so that probing wraps to slot 0, where
\* <<0>> and <<65535,31>> (31*65535+31 overflows 16 bits to 0) hash.
InternInputs ==
    { <<31>>, <<1, 0>>, <<0, 31>>, <<0, 0, 31>>, <<32>>,
      <<65535>>, <<0, 65535>>, <<0>>, <<65535, 31>> }

RECURSIVE HashLoop(_, _, _, _)
HashLoop(unicodePoints, length, i, hash) ==
    IF i >= length THEN hash
    ELSE HashLoop(unicodePoints, length, i + 1,
                  (31 * hash + unicodePoints[i + 1]) % UShortRange)

extendedCharHash(unicodePoints, length) ==
    HashLoop(unicodePoints, length, 0, 0)

\* a stored buffer: buffer[0] is the length, the code points follow
MakeBuffer(unicodePoints, length) ==
    <<length>> \o SubSeq(unicodePoints, 1, length)

extendedCharMatch_LengthOnly(table, hash, unicodePoints, length) ==
    /\ hash \in DOMAIN table
    /\ table[hash][1] = length

extendedCharMatch_Never(table, hash, unicodePoints, length) ==
    FALSE

extendedCharMatch(table, hash, unicodePoints, length) ==
    IF hash \notin DOMAIN table \/ table[hash][1] # length THEN FALSE
    ELSE \A i \in 0 .. length - 1 : table[hash][i + 2] = unicodePoints[i + 1]

\* the probing loop of createExtendedChar: the slot the call ends at
RECURSIVE ProbeLoop(_, _, _, _)
ProbeLoop(table, hash, unicodePoints, length) ==
    IF hash \in DOMAIN table
    THEN IF extendedCharMatch(table, hash, unicodePoints, length)
         THEN hash
         ELSE ProbeLoop(table, (hash + 1) % UShortRange, unicodePoints, length)
    ELSE hash

lookupExtendedChar_KeepLength(table, hash) ==
    IF hash \in DOMAIN table
    THEN [length |-> table[hash][1], buffer |-> table[hash], isNull |-> FALSE]
    ELSE [length |-> 0, buffer |-> <<>>, isNull |-> TRUE]

lookupExtendedChar(table, hash) ==
    IF hash \in DOMAIN table
    THEN [length |-> table[hash][1], buffer |-> Tail(table[hash]), isNull |-> FALSE]
    ELSE [length |-> 0, buffer |-> <<>>, isNull |-> TRUE]

\* every slot a sequence of InternInputs can end at
ProbeHandles ==
    { (extendedCharHash(s, Len(s)) + k) % UShortRange :
        s \in InternInputs, k \in 0 .. MaxEntries }

NoTableCall == [op |-> "none"]

TableInit ==
    /\ extendedCharTable = << >>
    /\ issued = << >>
    /\ lastTableCall = NoTableCall

createExtendedChar(unicodePoints) ==
    LET length == Len(unicodePoints)
        hash   == ProbeLoop(extendedCharTable,
                            extendedCharHash(unicodePoints, length),
                            unicodePoints, length)
    IN  /\ \/ Cardinality(DOMAIN extendedCharTable) < MaxEntries
           \/ unicodePoints \in DOMAIN issued
        /\ extendedCharTable' =
             IF hash \in DOMAIN extendedCharTable
             THEN extendedCharTable
             ELSE (hash :> MakeBuffer(unicodePoints, length)) @@ extendedCharTable
        /\ issued' =
             IF unicodePoints \in DOMAIN issued
             THEN [issued EXCEPT ![unicodePoints] = @ \cup {hash}]
             ELSE (unicodePoints :> {hash}) @@ issued
        /\ lastTableCall' = [op |-> "create", seq |-> unicodePoints,
                             again |-> unicodePoints \in DOMAIN issued,
                             handle |-> hash]
        /\ UNCHANGED <<emuVars, searchVars>>

lookupCall(hash) ==
    /\ lastTableCall' = [op |-> "lookup", handle |-> hash,
                         result |-> lookupExtendedChar(extendedCharTable, hash)]
    /\ UNCHANGED <<extendedCharTable, issued>>
    /\ UNCHANGED <<emuVars, searchVars>>

NextTable ==
    \/ \E s \in InternInputs : createExtendedChar(s)
    \/ \E h \in ProbeHandles : lookupCall(h)

-----------------------------------------------------------------------------
(* Claims about ExtendedCharTable                                          *)

IssuedHandles == UNION { issued[s] : s \in DOMAIN issued }

\* C1: any two distinct sequences that were interned were given different
\* handles, also when their hashes collide and when the slot next to the
\* hash is taken by a third sequence.
C1_DistinctHandles ==
    \A a \in DOMAIN issued : \A b \in DOMAIN issued :
        a # b => issued[a] \cap issued[b] = {}

\* two sequences with the same hash are interned, and the second found the
\* slot after the hash taken by a third sequence
C1_Witness ==
    \E a \in DOMAIN issued : \E b \in DOMAIN issued : \E c \in DOMAIN issued :
        LET h == extendedCharHash(a, Len(a)) IN
        /\ a # b /\ b # c /\ a # c
        /\ extendedCharHash(b, Len(b)) = h
        /\ issued[a] = {h}
        /\ issued[c] = {(h + 1) % UShortRange}
        /\ issued[b] = {(h + 2) % UShortRange}

\* C2: interning is idempotent: every call for a sequence returned the same
\* handle, and a repeated call added no entry (the table holds one entry per
\* distinct sequence interned, each where the first call put it).
C2_Idempotent ==
    /\ \A s \in DOMAIN issued : Cardinality(issued[s]) = 1
    /\ Cardinality(DOMAIN extendedCharTable) = Cardinality(DOMAIN issued)
    /\ lastTableCall.op = "create" => lastTableCall.handle \in issued[lastTableCall.seq]

\* a sequence is interned again after a colliding sequence was placed by
\* probing past it
C2_Witness ==
    /\ lastTableCall.op = "create"
    /\ lastTableCall.again
    /\ \E b \in DOMAIN issued :
         /\ b # lastTableCall.seq
         /\ extendedCharHash(b, Len(b)) =
              extendedCharHash(lastTableCall.seq, Len(lastTableCall.seq))
         /\ extendedCharHash(b, Len(b)) \notin issued[b]

\* C3: lookupExtendedChar of a handle createExtendedChar returned for S gives
\* back exactly S, whatever was interned since; lookupExtendedChar of a handle
\* that was never returned gives length 0 and no sequence.
C3_RoundTrip ==
    /\ \A s \in DOMAIN issued : \A h \in issued[s] :
         lookupExtendedChar(extendedCharTable, h) =
             [length |-> Len(s), buffer |-> s, isNull |-> FALSE]
    /\ \A h \in ProbeHandles \ IssuedHandles :
         lookupExtendedChar(extendedCharTable, h) =
             [length |-> 0, buffer |-> <<>>, isNull |-> TRUE]
    /\ lastTableCall.op = "lookup" =>
         IF lastTableCall.handle \in IssuedHandles
         THEN \E s \in DOMAIN issued :
                 /\ lastTableCall.handle \in issued[s]
                 /\ lastTableCall.result.length = Len(s)
                 /\ lastTableCall.result.buffer = s
         ELSE lastTableCall.result.length = 0 /\ lastTableCall.result.isNull

\* a sequence of two code points that was placed by probing is looked up
\* while the table holds other entries and empty slots
C3_Witness ==
    /\ lastTableCall.op = "lookup"
    /\ lastTableCall.result.length = 2
    /\ \E s \in DOMAIN issued :
         /\ issued[s] = {lastTableCall.handle}
         /\ lastTableCall.handle # extendedCharHash(s, Len(s))
    /\ Cardinality(DOMAIN extendedCharTable) >= 3
    /\ ProbeHandles \ IssuedHandles # {}

-----------------------------------------------------------------------------
(* Screen and ScreenWindow, the collaborators Emulation drives              *)

\* Emulation() creates both screens with this size
DefaultLines == 40
DefaultColumns == 80

Screen(lines, columns) ==
    [lines |-> lines, columns |-> columns, cuX |-> 0, cuY |-> 0,
     glyphs |-> <<>>, scrolledLines |-> 0, droppedLines |-> 0,
     scroll |-> "HistoryTypeNone"]

\* the line feed at the bottom line scrolls the image up
Screen_index(s) ==
    IF s.cuY + 1 < s.lines
    THEN [s EXCEPT !.cuY = @ + 1]
    ELSE [s EXCEPT !.scrolledLines = @ + 1,
                   !.droppedLines = IF s.scroll = "HistoryTypeNone" THEN @ + 1 ELSE @]

Screen_backspace(s) == [s EXCEPT !.cuX = IF @ > 0 THEN @ - 1 ELSE 0]

Screen_tab(s) ==
    LET stop == ((s.cuX \div 8) + 1) * 8
    IN  [s EXCEPT !.cuX = IF stop < s.columns THEN stop ELSE s.columns - 1]

Screen_newLine(s) == Screen_index(s)

Screen_toStartOfLine(s) == [s EXCEPT !.cuX = 0]

\* the glyph goes to the cursor, which advances; past the right margin the
\* cursor first wraps to the start of the next line
Screen_displayCharacter(s, c) ==
    LET w == IF s.cuX >= s.columns
             THEN Screen_index([s EXCEPT !.cuX = 0])
             ELSE s
    IN  [w EXCEPT !.glyphs = Append(@, c), !.cuX = @ + 1]

Screen_resizeImage(s, lines, columns) ==
    [s EXCEPT !.lines = lines, !.columns = columns,
              !.cuX = IF @ < columns THEN @ ELSE columns - 1,
              !.cuY = IF @ < lines THEN @ ELSE lines - 1]

Screen_resetScrolledLines(s) == [s EXCEPT !.scrolledLines = 0]

Screen_resetDroppedLines(s) == [s EXCEPT !.droppedLines = 0]

Screen_setScroll(s, t) == [s EXCEPT !.scroll = t]

-----------------------------------------------------------------------------
(* Emulation                                                               *)

NOTIFYNORMAL == 0
NOTIFYBELL == 1
NOTIFYACTIVITY == 2

BULK_TIMEOUT1 == 10
BULK_TIMEOUT2 == 40

\* a stopped QTimer
Inactive == -1

\* entries of the effects history
Emit(name, a, b) == [obj |-> "signal", idx |-> 0, name |-> name, a |-> a, b |-> b]
ScreenCall(idx, name, a, b) == [obj |-> "screen", idx |-> idx, name |-> name, a |-> a, b |-> b]
WindowCall(w, name, a) == [obj |-> "window", idx |-> w, name |-> name, a |-> a, b |-> 0]

NoFlush == [cause |-> "none", batch |-> 0, age |-> 0, sinceLast |-> 0, notifications |-> 0]

\* The emulation's state as one value, so that a handler is the composition
\* of the calls it makes.  The effects and the last flush are those of the
\* handler that runs.
Em ==
    [screen |-> screen, currentScreen |-> currentScreen, windows |-> windows,
     decoder |-> decoder, bulkTimer1 |-> bulkTimer1, bulkTimer2 |-> bulkTimer2,
     effects |-> <<>>, sched |-> [sched EXCEPT !.lastFlush = NoFlush],
     stream |-> stream]

Commit(em) ==
    /\ screen' = em.screen
    /\ currentScreen' = em.currentScreen
    /\ windows' = em.windows
    /\ decoder' = em.decoder
    /\ bulkTimer1' = em.bulkTimer1
    /\ bulkTimer2' = em.bulkTimer2
    /\ effects' = em.effects
    /\ sched' = em.sched
    /\ stream' = em.stream

Call(op, a, b, text, decoded) ==
    [op |-> op, a |-> a, b |-> b, text |-> text, decoded |-> decoded]

EmulationInit ==
    /\ screen = [i \in {0, 1} |-> Screen(DefaultLines, DefaultColumns)]
    /\ currentScreen = 0
    /\ windows = <<>>
    /\ decoder = [encoding |-> "Utf8", pending |-> <<>>]
    /\ bulkTimer1 = Inactive
    /\ bulkTimer2 = Inactive
    /\ effects = <<>>
    /\ lastCall = Call("Emulation", 0, 0, <<>>, <<>>)
    /\ sched = [batch |-> 0, age |-> 0, sinceLast |-> 0, lastFlush |-> NoFlush]
    /\ stream = [started |-> FALSE, age |-> 0, flushes |-> 0, broken |-> FALSE]
    /\ ingestCalls = 0

WithEmit(em, name, a, b) == [em EXCEPT !.effects = Append(@, Emit(name, a, b))]

\* a call of a method of the active screen
OnCurrentScreen(em, name, a, b, after) ==
    [em EXCEPT !.screen[em.currentScreen] = after,
               !.effects = Append(@, ScreenCall(em.currentScreen, name, a, b))]

\* n & 1 on a two's complement int
ScreenIndex(n) == n % 2

\* the most ScreenWindows created, the longest stream of updates observed
\* (ms) and the most receiveData calls; the updates of a batch are counted up
\* to MaxBatch ("MaxBatch or more")
MaxWindows == 2
MaxBatch == 2
MaxTime == 100
MaxIngest == 1

ScreenWindow_setScreen(window, idx) == [window EXCEPT !.screen = idx]

createWindow_FirstScreen(em) ==
    [em EXCEPT !.windows = Append(@, ScreenWindow_setScreen([screen |-> 0], 0)),
               !.effects = Append(@, WindowCall(Len(em.windows) + 1, "setScreen", 0))]

createWindow(em) ==
    [em EXCEPT !.windows = Append(@, ScreenWindow_setScreen([screen |-> 0], em.currentScreen)),
               !.effects = Append(@, WindowCall(Len(em.windows) + 1, "setScreen",
                                                em.currentScreen))]

\* the loop of setScreen over _windows, from window w on
RECURSIVE RebindWindows(_, _)
RebindWindows(em, w) ==
    IF w > Len(em.windows) THEN em
    ELSE RebindWindows(
           [em EXCEPT !.windows[w] = ScreenWindow_setScreen(@, em.currentScreen),
                      !.effects = Append(@, WindowCall(w, "setScreen", em.currentScreen))],
           w + 1)

setScreen_Clearing(em, n) ==
    LET cur == ScreenIndex(n)
        em1 == [em EXCEPT !.currentScreen = cur,
                          !.screen[cur] = Screen(@.lines, @.columns)]
    IN  IF cur # em.currentScreen THEN RebindWindows(em1, 1) ELSE em1

setScreen_AlwaysRebind(em, n) ==
    RebindWindows([em EXCEPT !.currentScreen = ScreenIndex(n)], 1)

setScreen(em, n) ==
    LET old == em.currentScreen
        em1 == [em EXCEPT !.currentScreen = ScreenIndex(n)]
    IN  IF em1.currentScreen # old THEN RebindWindows(em1, 1) ELSE em1

bufferedUpdate_KeepTimer1(em) ==
    [em EXCEPT !.bulkTimer1 = IF @ = Inactive THEN BULK_TIMEOUT1 ELSE @,
               !.bulkTimer2 = IF @ = Inactive THEN BULK_TIMEOUT2 ELSE @,
               !.sched.batch = IF @ < MaxBatch THEN @ + 1 ELSE @,
               !.sched.age = IF em.sched.batch = 0 THEN 0 ELSE @,
               !.sched.sinceLast = 0,
               !.stream.started = TRUE]

bufferedUpdate_RestartBoth(em) ==
    [em EXCEPT !.bulkTimer1 = BULK_TIMEOUT1,
               !.bulkTimer2 = BULK_TIMEOUT2,
               !.sched.batch = IF @ < MaxBatch THEN @ + 1 ELSE @,
               !.sched.age = IF em.sched.batch = 0 THEN 0 ELSE @,
               !.sched.sinceLast = 0,
               !.stream.started = TRUE]

bufferedUpdate(em) ==
    [em EXCEPT !.bulkTimer1 = BULK_TIMEOUT1,
               !.bulkTimer2 = IF @ = Inactive THEN BULK_TIMEOUT2 ELSE @,
               !.sched.batch = IF @ < MaxBatch THEN @ + 1 ELSE @,
               !.sched.age = IF em.sched.batch = 0 THEN 0 ELSE @,
               !.sched.sinceLast = 0,
               !.stream.started = TRUE]

CountSignal(eff, name) ==
    Cardinality({i \in 1 .. Len(eff) : eff[i].obj = "signal" /\ eff[i].name = name})

\* the history kept of a flush: the batch it flushed and how old it was
FlushRecord(em, cause, notifications) ==
    [cause |-> cause, batch |-> em.sched.batch, age |-> em.sched.age,
     sinceLast |-> em.sched.sinceLast, notifications |-> notifications]

showBulk_KeepTimer2(em) ==
    LET em1 == WithEmit([em EXCEPT !.bulkTimer1 = Inactive], "outputChanged", 0, 0)
        em2 == OnCurrentScreen(em1, "resetScrolledLines", 0, 0,
                   Screen_resetScrolledLines(em1.screen[em1.currentScreen]))
        em3 == OnCurrentScreen(em2, "resetDroppedLines", 0, 0,
                   Screen_resetDroppedLines(em2.screen[em2.currentScreen]))
    IN  [em3 EXCEPT !.sched.batch = 0, !.sched.age = 0,
                    !.sched.lastFlush = FlushRecord(em, "explicit", 1),
                    !.stream.flushes = IF em.stream.started /\ ~em.stream.broken
                                       THEN @ + 1 ELSE @]

showBulk(em) ==
    LET em1 == WithEmit([em EXCEPT !.bulkTimer1 = Inactive, !.bulkTimer2 = Inactive],
                        "outputChanged", 0, 0)
        em2 == OnCurrentScreen(em1, "resetScrolledLines", 0, 0,
                   Screen_resetScrolledLines(em1.screen[em1.currentScreen]))
        em3 == OnCurrentScreen(em2, "resetDroppedLines", 0, 0,
                   Screen_resetDroppedLines(em2.screen[em2.currentScreen]))
    IN  [em3 EXCEPT !.sched.batch = 0, !.sched.age = 0,
                    !.sched.lastFlush =
                        FlushRecord(em, "explicit",
                                    CountSignal(em3.effects, "outputChanged")
                                      - CountSignal(em.effects, "outputChanged")),
                    !.stream.flushes = IF em.stream.started /\ ~em.stream.broken
                                       THEN @ + 1 ELSE @]

setHistory(em, t) ==
    showBulk([em EXCEPT !.screen[0] = Screen_setScroll(@, t),
                        !.effects = Append(@, ScreenCall(0, "setScroll", 0, 0))])

setImageSize_NoSameSizeCheck(em, lines, columns) ==
    IF lines < 1 \/ columns < 1 THEN em
    ELSE LET em1 == [em EXCEPT
                       !.screen[0] = Screen_resizeImage(@, lines, columns),
                       !.screen[1] = Screen_resizeImage(@, lines, columns),
                       !.effects = @ \o <<ScreenCall(0, "resizeImage", lines, columns),
                                          ScreenCall(1, "resizeImage", lines, columns)>>]
         IN  bufferedUpdate(WithEmit(em1, "imageSizeChanged", lines, columns))

setImageSize(em, lines, columns) ==
    IF lines < 1 \/ columns < 1 THEN em
    ELSE IF /\ <<columns, lines>> = <<em.screen[0].columns, em.screen[0].lines>>
            /\ <<columns, lines>> = <<em.screen[1].columns, em.screen[1].lines>>
    THEN em
    ELSE LET em1 == [em EXCEPT
                       !.screen[0] = Screen_resizeImage(@, lines, columns),
                       !.screen[1] = Screen_resizeImage(@, lines, columns),
                       !.effects = @ \o <<ScreenCall(0, "resizeImage", lines, columns),
                                          ScreenCall(1, "resizeImage", lines, columns)>>]
         IN  bufferedUpdate(WithEmit(em1, "imageSizeChanged", lines, columns))

receiveChar(em, ch) ==
    LET c == ch % 256
        s == em.screen[em.currentScreen]
    IN  CASE c = 8  -> OnCurrentScreen(em, "backspace", 0, 0, Screen_backspace(s))
          [] c = 9  -> OnCurrentScreen(em, "tab", 0, 0, Screen_tab(s))
          [] c = 10 -> OnCurrentScreen(em, "newLine", 0, 0, Screen_newLine(s))
          [] c = 13 -> OnCurrentScreen(em, "toStartOfLine", 0, 0, Screen_toStartOfLine(s))
          [] c = 7  -> WithEmit(em, "stateSet", NOTIFYBELL, 0)
          [] OTHER  -> OnCurrentScreen(em, "displayCharacter", c, 0,
                                       Screen_displayCharacter(s, c))

\* QStringDecoder::decode for UTF-8, for one- and two-byte characters: a
\* lead byte waits in the decoder for its continuation byte, also across
\* calls; a byte that fits nowhere decodes to U+FFFD
RECURSIVE DecodeLoop(_, _, _, _)
DecodeLoop(bytes, i, pending, out) ==
    IF i > Len(bytes) THEN [pending |-> pending, text |-> out]
    ELSE LET b == bytes[i] IN
         IF pending = <<>>
         THEN IF b < 128 THEN DecodeLoop(bytes, i + 1, <<>>, Append(out, b))
              ELSE IF b \in 194 .. 223 THEN DecodeLoop(bytes, i + 1, <<b>>, out)
              ELSE DecodeLoop(bytes, i + 1, <<>>, Append(out, 65533))
         ELSE IF b \in 128 .. 191
              THEN DecodeLoop(bytes, i + 1, <<>>,
                              Append(out, (pending[1] % 32) * 64 + (b % 64)))
              ELSE DecodeLoop(bytes, i, <<>>, Append(out, 65533))

Decode(dec, bytes) ==
    IF dec.encoding = "Utf8"
    THEN DecodeLoop(bytes, 1, dec.pending, <<>>)
    ELSE [pending |-> <<>>, text |-> bytes]

\* the loop of receiveData over the decoded characters
RECURSIVE ReceiveChars(_, _, _)
ReceiveChars(em, text, i) ==
    IF i > Len(text) THEN em
    ELSE ReceiveChars(receiveChar(em, text[i]), text, i + 1)

\* strncmp(text + i + 1, "B00", 3) == 0, for i counted from 0
FollowedByB00(text, i) ==
    /\ i + 4 <= Len(text)
    /\ text[i + 2] = 66 /\ text[i + 3] = 48 /\ text[i + 4] = 48

\* the z-modem loop of receiveData, from byte i (counted from 0) on
RECURSIVE ZmodemLoop(_, _, _)
ZmodemLoop(em, text, i) ==
    IF i >= Len(text) THEN em
    ELSE IF /\ text[i + 1] = 24
            /\ Len(text) - i - 1 > 3
            /\ FollowedByB00(text, i)
         THEN ZmodemLoop(WithEmit(em, "zmodemDetected", 0, 0), text, i + 1)
         ELSE ZmodemLoop(em, text, i + 1)

receiveData(em, text) ==
    LET em1 == bufferedUpdate(WithEmit(em, "stateSet", NOTIFYACTIVITY, 0))
        dec == Decode(em.decoder, text)
        em2 == ReceiveChars([em1 EXCEPT !.decoder.pending = dec.pending], dec.text, 1)
    IN  ZmodemLoop(em2, text, 0)

-----------------------------------------------------------------------------
(* The handlers as steps                                                   *)

createWindowCall ==
    /\ Len(windows) < MaxWindows
    /\ Commit(createWindow(Em))
    /\ lastCall' = Call("createWindow", 0, 0, <<>>, <<>>)
    /\ UNCHANGED <<ingestCalls, tableVars, searchVars>>

setScreenCall(n) ==
    /\ Commit(setScreen(Em, n))
    /\ lastCall' = Call("setScreen", n, 0, <<>>, <<>>)
    /\ UNCHANGED <<ingestCalls, tableVars, searchVars>>

setImageSizeCall(lines, columns) ==
    /\ Commit(setImageSize(Em, lines, columns))
    /\ lastCall' = Call("setImageSize", lines, columns, <<>>, <<>>)
    /\ UNCHANGED <<ingestCalls, tableVars, searchVars>>

\* setHistory flushes at once; the stream of timed updates ends with it
setHistoryCall(t) ==
    /\ Commit([setHistory(Em, t) EXCEPT !.stream.broken = TRUE])
    /\ lastCall' = Call("setHistory", 0, 0, <<>>, <<>>)
    /\ UNCHANGED <<ingestCalls, tableVars, searchVars>>

receiveDataCall(text) ==
    /\ ingestCalls < MaxIngest
    /\ Commit(receiveData(Em, text))
    /\ lastCall' = Call("receiveData", 0, 0, text, Decode(decoder, text).text)
    /\ ingestCalls' = ingestCalls + 1
    /\ UNCHANGED <<tableVars, searchVars>>

\* the slot, as a ScreenWindow's selectionChanged or a subclass invokes it
bufferedUpdateCall ==
    /\ Commit(bufferedUpdate(Em))
    /\ lastCall' = Call("bufferedUpdate", 0, 0, <<>>, <<>>)
    /\ UNCHANGED <<ingestCalls, tableVars, searchVars>>

\* _bulkTimer1 fires: the stream of updates paused for BULK_TIMEOUT1
bulkTimer1Timeout ==
    /\ bulkTimer1 = 0
    /\ Commit([showBulk(Em) EXCEPT !.sched.lastFlush.cause = "timer1",
                                   !.stream.broken = TRUE])
    /\ lastCall' = Call("timeout1", 0, 0, <<>>, <<>>)
    /\ UNCHANGED <<ingestCalls, tableVars, searchVars>>

bulkTimer2Timeout ==
    /\ bulkTimer2 = 0
    /\ Commit([showBulk(Em) EXCEPT !.sched.lastFlush.cause = "timer2"])
    /\ lastCall' = Call("timeout2", 0, 0, <<>>, <<>>)
    /\ UNCHANGED <<ingestCalls, tableVars, searchVars>>

\* One millisecond passes.  A timer that is due fires before time moves on.
\* Time is followed while a timer runs, and between flushes while the stream
\* of updates lasts (no pause of BULK_TIMEOUT1 between two updates yet).
Tick ==
    LET running == bulkTimer1 # Inactive \/ bulkTimer2 # Inactive
        live    == stream.started /\ ~stream.broken
    IN  /\ bulkTimer1 # 0 /\ bulkTimer2 # 0
        /\ running \/ live
        /\ live => stream.age < MaxTime
        /\ bulkTimer1' = IF bulkTimer1 = Inactive THEN Inactive ELSE bulkTimer1 - 1
        /\ bulkTimer2' = IF bulkTimer2 = Inactive THEN Inactive ELSE bulkTimer2 - 1
        /\ sched' = [sched EXCEPT !.age = IF sched.batch > 0 THEN @ + 1 ELSE @,
                                  !.sinceLast = @ + 1,
                                  !.lastFlush = NoFlush]
        /\ stream' = [stream EXCEPT
                        !.age = IF live THEN @ + 1 ELSE @,
                        !.broken = @ \/ (live /\ ~running
                                         /\ sched.sinceLast + 1 >= BULK_TIMEOUT1)]
        /\ effects' = <<>>
        /\ lastCall' = Call("tick", 0, 0, <<>>, <<>>)
        /\ UNCHANGED <<screen, currentScreen, windows, decoder, ingestCalls, tableVars, searchVars>>

-----------------------------------------------------------------------------
(* Inputs                                                                  *)

ScreenIndexInputs == {-2, -1, 0, 3}

LinesInputs == {0, 1, DefaultLines}
ColumnsInputs == {-1, 2, DefaultColumns}

HistoryInputs == {"HistoryTypeBuffer"}

\* the z-modem marker: 0x18 then "B00"
Marker == <<24, 66, 48, 48>>

\* the chunks the session controller receives between its other calls: a
\* line feed, a letter, and U+010A in UTF-8
EmuChunks == { <<10>>, <<65>>, <<196, 138>> }

\* The pieces the chunks of the ingest are made of, and how many: the marker,
\* a letter, the controls of receiveChar, and in UTF-8 U+0107 and U+010A (low
\* byte a control) and U+0141 (low byte a letter).
Pieces ==
    { Marker, <<120>>, <<7>>, <<8>>, <<9>>, <<10>>, <<13>>,
      <<196, 135>>, <<196, 138>>, <<197, 129>> }
MaxPieces == 3

RECURSIVE ChunksOf(_)
ChunksOf(n) ==
    IF n = 0 THEN { <<>> }
    ELSE LET shorter == ChunksOf(n - 1)
         IN  shorter \cup { c \o p : c \in shorter, p \in Pieces }

Chunks == ChunksOf(MaxPieces)


-----------------------------------------------------------------------------
(* Claims about Emulation                                                  *)

\* C4: setScreen(n) leaves the contents, cursor, size and counters of both
\* screens as they were, for every n (so does switching there and back); it
\* touches neither the decoder nor the timers and emits no signal.
C4_SetScreenFrame ==
    [][lastCall'.op = "setScreen" =>
          /\ screen' = screen
          /\ decoder' = decoder
          /\ bulkTimer1' = bulkTimer1 /\ bulkTimer2' = bulkTimer2
          /\ \A i \in 1 .. Len(effects') : effects'[i].obj = "window"]_vars

\* setScreen with a negative index made the second screen the active one
\* while the first holds a glyph-less scrolled image, or glyphs
C4_Witness ==
    /\ lastCall.op = "setScreen"
    /\ lastCall.a = -1
    /\ currentScreen = 1
    /\ screen[0].scrolledLines > 0 \/ screen[0].glyphs # <<>>
    /\ screen[0] # screen[1]

\* the low bit of n, for the indices the model passes
LowBit(n) == IF n \in {-2, 0} THEN 0 ELSE 1

\* C5: setScreen(n) makes screen n & 1 the active one; if that is another
\* screen than before, every window is rebound to it exactly once, in the
\* order of _windows, and otherwise no window is rebound.
C5_SetScreenRebinds ==
    [][lastCall'.op = "setScreen" =>
          /\ currentScreen' = LowBit(lastCall'.a)
          /\ Len(windows') = Len(windows)
          /\ IF currentScreen' # currentScreen
             THEN /\ effects' = [w \in 1 .. Len(windows) |->
                                    WindowCall(w, "setScreen", currentScreen')]
                  /\ \A w \in 1 .. Len(windows) : windows'[w].screen = currentScreen'
             ELSE /\ effects' = <<>>
                  /\ windows' = windows]_vars

\* two windows were rebound by a setScreen with an odd index
C5_Witness ==
    /\ lastCall.op = "setScreen"
    /\ lastCall.a = 3
    /\ Len(windows) = 2
    /\ Len(effects) = 2
    /\ \A w \in 1 .. 2 : windows[w].screen = 1

\* C6 (as amended): the updates of one batch get exactly one outputChanged,
\* when the first of the two deadlines fires: the short one, BULK_TIMEOUT1
\* after the last update, unless BULK_TIMEOUT2 have passed since the first
\* update by then, and then the long one.  The flush leaves no deadline
\* behind, so the other timer gives no second notification for the batch.
C6_Coalesced ==
    LET f == sched.lastFlush IN
    /\ f.cause \in {"timer1", "timer2"} =>
          /\ f.batch >= 1
          /\ f.notifications = 1
          /\ CountSignal(effects, "outputChanged") = 1
    /\ f.cause = "timer1" => f.sinceLast = BULK_TIMEOUT1 /\ f.age <= BULK_TIMEOUT2
    /\ f.cause = "timer2" => f.age = BULK_TIMEOUT2 /\ f.sinceLast <= BULK_TIMEOUT1
    /\ sched.batch = 0 => bulkTimer1 = Inactive /\ bulkTimer2 = Inactive

\* two or more updates were flushed together by the short deadline
C6_Witness ==
    /\ sched.lastFlush.cause = "timer1"
    /\ sched.lastFlush.batch >= 2
    /\ sched.lastFlush.age > BULK_TIMEOUT1

\* C6 as stated: the one notification of a batch comes when the short
\* deadline fires, BULK_TIMEOUT1 after the last update of the batch.
C6_FlushOnShortDeadline ==
    sched.lastFlush.cause \in {"timer1", "timer2"} =>
        /\ sched.lastFlush.sinceLast = BULK_TIMEOUT1
        /\ sched.lastFlush.notifications = 1

\* C7 (as amended): an update never postpones a pending long deadline, so
\* every change is flushed no later than BULK_TIMEOUT2 after the first
\* unflushed change; the long deadline is armed anew by the first update
\* after a flush, so a stream of updates less than BULK_TIMEOUT1 apart that
\* lasts T ms has had at least T \div (BULK_TIMEOUT1 + BULK_TIMEOUT2) flushes.
C7_NoStarvation ==
    /\ sched.batch > 0 =>
          /\ bulkTimer2 # Inactive
          /\ sched.age + bulkTimer2 = BULK_TIMEOUT2
    /\ sched.lastFlush.cause \in {"timer1", "timer2"} =>
          sched.lastFlush.age <= BULK_TIMEOUT2
    /\ (stream.started /\ ~stream.broken) =>
          stream.flushes >= stream.age \div (BULK_TIMEOUT1 + BULK_TIMEOUT2)

\* a stream that never paused has been flushed twice by the long deadline
\* and has updates pending again
C7_Witness ==
    /\ stream.started /\ ~stream.broken
    /\ stream.flushes >= 2
    /\ sched.batch >= 2
    /\ bulkTimer2 # Inactive

\* C7 as stated: a stream lasting T ms has had T \div BULK_TIMEOUT2 flushes
\* (once the timers that are due have fired).
C7_FlushEvery40 ==
    (stream.started /\ ~stream.broken /\ bulkTimer1 # 0 /\ bulkTimer2 # 0) =>
        stream.flushes >= stream.age \div BULK_TIMEOUT2

ContainsMarker(text) ==
    \E i \in 1 .. Len(text) - 3 : SubSeq(text, i, i + 3) = Marker

\* C9: a receiveData call raises zmodemDetected once and no more, however
\* often the marker occurs in its chunk, and not at all when the chunk holds
\* no marker.  (A chunk that ends with the marker is the case of C21 and is
\* left out here.)
C9_OneDetectionPerCall ==
    lastCall.op = "receiveData" =>
        LET n    == CountSignal(effects, "zmodemDetected")
            text == lastCall.text
        IN  IF ContainsMarker(text)
            THEN \/ SubSeq(text, Len(text) - 3, Len(text)) = Marker
                 \/ n = 1
            ELSE n = 0

\* what C10 says receiveChar does with the code point c
ClaimedDispatch(c, idx) ==
    CASE c = 8  -> ScreenCall(idx, "backspace", 0, 0)
      [] c = 9  -> ScreenCall(idx, "tab", 0, 0)
      [] c = 10 -> ScreenCall(idx, "newLine", 0, 0)
      [] c = 13 -> ScreenCall(idx, "toStartOfLine", 0, 0)
      [] c = 7  -> Emit("stateSet", NOTIFYBELL, 0)
      [] OTHER  -> ScreenCall(idx, "displayCharacter", c, 0)

\* C10: receiveChar sends backspace, tab, line feed and carriage return to
\* the cursor operation of the active screen, raises stateSet(NOTIFYBELL) for
\* the bell, and writes every other code point c as the glyph c, also above
\* 0xFF.
C10_DispatchTable ==
    lastCall.op = "receiveData" =>
        /\ Len(effects) >= 1 + Len(lastCall.decoded)
        /\ \A i \in 1 .. Len(lastCall.decoded) :
              effects[i + 1] = ClaimedDispatch(lastCall.decoded[i], currentScreen)

-----------------------------------------------------------------------------
(* HistorySearch                                                           *)

\* the most lines search() decodes and scans at once
BlockSize == 10000

NewLine == "\n"

\* A buffer is [total, text]: total lines, of which the lines in DOMAIN text
\* hold the characters text[y] and every other line is blank.
Buffer(total, text) == [total |-> total, text |-> text]

\* Emulation::lineCount: the history lines and the screen lines together
lineCount(buf) == buf.total

RECURSIVE TextLength(_, _)
TextLengthWith(buf, held, y) == Len(buf.text[y]) + TextLength(buf, held \ {y})

\* the characters the lines `held` hold together
TextLength(buf, held) ==
    IF held = {} THEN 0 ELSE TextLengthWith(buf, held, CHOOSE y \in held : TRUE)

\* the offset at which line y begins in the text decoded from line `from` on:
\* each line before it is followed by a line break
LineStart(buf, from, y) ==
    (y - from) + TextLength(buf, {j \in DOMAIN buf.text : from <= j /\ j < y})

\* the character at offset q of a decoded text in which the lines that hold
\* characters begin at the offsets `start`
CharAt(buf, start, q) ==
    IF \E j \in DOMAIN start : start[j] <= q /\ q < start[j] + Len(buf.text[j])
    THEN LET j == CHOOSE j \in DOMAIN start :
                      start[j] <= q /\ q < start[j] + Len(buf.text[j])
         IN  buf.text[j][q - start[j] + 1]
    ELSE NewLine

Decoded(buf, startLine, endLine, start) ==
    [ string        |-> [p \in 1 .. LineStart(buf, startLine, endLine + 1)
                            |-> CharAt(buf, start, p - 1)] \o <<>>,
      linePositions |-> [k \in 1 .. (endLine - startLine + 1)
                            |-> LineStart(buf, startLine, startLine + k - 1)] \o <<>> ]

\* Emulation::writeToStream into a PlainTextDecoder that records line
\* positions: the decoded text of lines startLine..endLine and the offset at
\* which each of them begins.  A line outside the buffer decodes as a blank
\* line.
writeToStream(buf, startLine, endLine) ==
    Decoded(buf, startLine, endLine,
            [j \in {j \in DOMAIN buf.text : startLine <= j /\ j <= endLine}
                |-> LineStart(buf, startLine, j)] @@ <<>>)

\* the least element of a non-empty set of integers
Least(S) == CHOOSE x \in S : \A y \in S : x <= y

\* the offsets at which the pattern, a literal, matches in the string
MatchStarts(regExp, string) ==
    {q \in 0 .. (Len(string) - Len(regExp)) :
        \A i \in 1 .. Len(regExp) : string[q + i] = regExp[i]}

NoMatch == [hasMatch |-> FALSE, capturedStart |-> -1, capturedLength |-> 0]

Match(start, length) ==
    [hasMatch |-> TRUE, capturedStart |-> start, capturedLength |-> length]

\* the first of the matches that start at the offsets `from`
FirstMatch(from, length) ==
    IF from = {} THEN NoMatch ELSE Match(Least(from), length)

\* QRegularExpression::match(string, offset): the first match at or after
\* the offset
match(regExp, string, offset) ==
    FirstMatch({q \in MatchStarts(regExp, string) : q >= offset}, Len(regExp))

\* QRegularExpression::globalMatch(string): the matches from the start of the
\* string on, each searched for after the end of the one before it
RECURSIVE GlobalLoop(_, _, _)
GlobalNext(starts, length, first) ==
    IF first.hasMatch
    THEN <<first>> \o GlobalLoop(starts, length, first.capturedStart + length)
    ELSE <<>>

GlobalLoop(starts, length, offset) ==
    GlobalNext(starts, length, FirstMatch({q \in starts : q >= offset}, length))

globalMatch(regExp, string) ==
    GlobalLoop(MatchStarts(regExp, string), Len(regExp), 0)

\* the loop of findLineNumberInString stops at the first lineNum whose
\* successor is past the end of the list or begins after the position
findLineNumberInString(linePositions, position) ==
    Least({lineNum \in 0 .. Len(linePositions) :
              ~ (/\ lineNum + 1 < Len(linePositions)
                 /\ linePositions[lineNum + 2] <= position)})

\* m_found* before a match is found
Unset == -1

\* HistorySearch::HistorySearch: the members of a new task
HistorySearch(regExp, forwards, startColumn, startLine) ==
    [ m_regExp |-> regExp, m_forwards |-> forwards,
      m_startColumn |-> startColumn, m_startLine |-> startLine,
      m_foundStartColumn |-> Unset, m_foundStartLine |-> Unset,
      m_foundEndColumn |-> Unset, m_foundEndLine |-> Unset,
      life |-> "created" ]

NoTask == [HistorySearch(<<>>, TRUE, 0, 0) EXCEPT !.life = "none"]

Signal(name, startColumn, startLine, endColumn, endLine) ==
    [ name |-> name, startColumn |-> startColumn, startLine |-> startLine,
      endColumn |-> endColumn, endLine |-> endLine ]

\* a loop that would stop at the first match that passes the test
BackwardLoop_First(iterator, next, endPosition, startColumn, lastMatch) ==
    IF next > Len(iterator) THEN lastMatch
    ELSE IF /\ iterator[next].capturedStart < endPosition
            /\ (startColumn = -1 \/ iterator[next].capturedStart >= startColumn)
         THEN iterator[next]
         ELSE lastMatch

\* the loop over the matches of a backward search: the last match that
\* starts below endPosition and not before startColumn, given that no match
\* before it fails that test
RECURSIVE BackwardLoop(_, _, _, _, _)
BackwardLoop(iterator, next, endPosition, startColumn, lastMatch) ==
    IF next > Len(iterator) THEN lastMatch
    ELSE IF /\ iterator[next].capturedStart < endPosition
            /\ (startColumn = -1 \/ iterator[next].capturedStart >= startColumn)
         THEN BackwardLoop(iterator, next + 1, endPosition, startColumn,
                           iterator[next])
         ELSE lastMatch

\* the end boundary of a block; linePositions.at(i) is linePositions[i + 1]
EndPosition(linePositions, size, endColumn) ==
    LET numberOfLinesInString == Len(linePositions) - 1
    IN  IF numberOfLinesInString > 0 /\ endColumn > -1
        THEN linePositions[(numberOfLinesInString - 1) + 1] + endColumn
        ELSE size

\* the match of a block: forwards the first one from startColumn on,
\* backwards the one the loop over all matches keeps
BlockMatch(o, string, startColumn, endPosition) ==
    IF o.m_forwards
    THEN match(o.m_regExp, string, startColumn)
    ELSE BackwardLoop(globalMatch(o.m_regExp, string), 1, endPosition,
                      startColumn, NoMatch)

\* matchStart: a forward match at or beyond endPosition does not count
MatchStart(o, found, endPosition) ==
    IF found.hasMatch /\ ~ (o.m_forwards /\ found.capturedStart >= endPosition)
    THEN found.capturedStart ELSE -1

\* history: what a block was and what was found in it.  `at` holds the
\* arguments and the locals of search(int, int, int, int) at this block.
Block(o, buf, at, decoded, endPosition, matchStart) ==
    [ half |-> 0, linesRead |-> at.linesRead,
      startColumn |-> at.startColumn, startLine |-> at.startLine,
      endColumn |-> at.endColumn, endLine |-> at.endLine,
      blockStartLine |-> at.blockStartLine, chunkEndLine |-> at.chunkEndLine,
      lines |-> Len(decoded.linePositions),
      lastLineStart |-> LineStart(buf, at.blockStartLine, at.chunkEndLine),
      size |-> Len(decoded.string), endPosition |-> endPosition,
      starts |-> MatchStarts(o.m_regExp, decoded.string),
      matchStart |-> matchStart ]

\* the match translated to lines and columns of the buffer
Found(o, at, linePositions, matchStart, matchEnd, startLineNumberInString, endLineNumberInString) ==
    [o EXCEPT
        !.m_foundStartColumn = matchStart - linePositions[startLineNumberInString + 1],
        !.m_foundStartLine = startLineNumberInString + at.startLine + at.linesRead,
        !.m_foundEndColumn = matchEnd - linePositions[endLineNumberInString + 1],
        !.m_foundEndLine = endLineNumberInString + at.startLine + at.linesRead]

Prepend(block, rest) == [rest EXCEPT !.blocks = <<block>> \o rest.blocks]

RECURSIVE BlockLoop(_, _, _, _, _, _, _)
\* the end of the body of the loop: return with the match, or read on
BlockEnd(o, buf, at, decoded, endPosition, matchStart, matchEnd) ==
    IF matchStart > -1
    THEN [ found |-> TRUE,
           o |-> Found(o, at, decoded.linePositions, matchStart, matchEnd,
                       findLineNumberInString(decoded.linePositions, matchStart),
                       findLineNumberInString(decoded.linePositions, matchEnd)),
           blocks |-> <<Block(o, buf, at, decoded, endPosition, matchStart)>> ]
    ELSE Prepend(Block(o, buf, at, decoded, endPosition, matchStart),
                 BlockLoop(o, buf, at.startColumn, at.startLine, at.endColumn,
                           at.endLine, at.linesRead + at.blockSize))

BlockFound(o, buf, at, decoded, endPosition, found) ==
    BlockEnd(o, buf, at, decoded, endPosition,
             MatchStart(o, found, endPosition),
             MatchStart(o, found, endPosition) + found.capturedLength - 1)

BlockDecoded(o, buf, at, decoded, endPosition) ==
    BlockFound(o, buf, at, decoded, endPosition,
               BlockMatch(o, decoded.string, at.startColumn, endPosition))

BlockBody(o, buf, at, decoded) ==
    BlockDecoded(o, buf, at, decoded,
                 EndPosition(decoded.linePositions, Len(decoded.string), at.endColumn))

\* HistorySearch::search(int, int, int, int) from the block that follows the
\* linesRead lines already read.  The result is whether a match was found,
\* the task with m_found* set, and the record of every block read.
BlockLoop(o, buf, startColumn, startLine, endColumn, endLine, linesRead) ==
    LET linesToRead == endLine - startLine + 1
        blockSize == IF BlockSize < linesToRead - linesRead
                     THEN BlockSize ELSE linesToRead - linesRead
        blockStartLine == IF o.m_forwards THEN startLine + linesRead
                          ELSE endLine - linesRead - blockSize + 1
        chunkEndLine == blockStartLine + blockSize - 1
    IN  IF blockSize <= 0 THEN [found |-> FALSE, o |-> o, blocks |-> <<>>]
        ELSE BlockBody(o, buf,
                       [ startColumn |-> startColumn, startLine |-> startLine,
                         endColumn |-> endColumn, endLine |-> endLine,
                         linesRead |-> linesRead, blockSize |-> blockSize,
                         blockStartLine |-> blockStartLine,
                         chunkEndLine |-> chunkEndLine ],
                       writeToStream(buf, blockStartLine, chunkEndLine))

searchLines(o, buf, startColumn, startLine, endColumn, endLine) ==
    BlockLoop(o, buf, startColumn, startLine, endColumn, endLine, 0)

InHalf(blocks, half) == [i \in DOMAIN blocks |-> [blocks[i] EXCEPT !.half = half]]

\* found = first || second: the second scan runs only when the first found
\* nothing
OrElse(first, second) ==
    IF first.found THEN [first EXCEPT !.blocks = InHalf(first.blocks, 1)]
    ELSE [second EXCEPT !.blocks = InHalf(first.blocks, 1)
                                       \o InHalf(second.blocks, 2)]

\* the two half-scans of search(): forwards from the start to the end of the
\* buffer and then from line 0 to the start, backwards the other way round
Scans(o, buf) ==
    IF o.m_forwards
    THEN OrElse(searchLines(o, buf, o.m_startColumn, o.m_startLine, -1, lineCount(buf)),
                searchLines(o, buf, 0, 0, o.m_startColumn, o.m_startLine))
    ELSE OrElse(searchLines(o, buf, 0, 0, o.m_startColumn, o.m_startLine),
                searchLines(o, buf, o.m_startColumn, o.m_startLine, -1, lineCount(buf)))

\* the signal search() emits for the outcome of the scans
Emitted(result) ==
    IF result.found
    THEN <<Signal("matchFound", result.o.m_foundStartColumn, result.o.m_foundStartLine,
                  result.o.m_foundEndColumn, result.o.m_foundEndLine)>>
    ELSE <<Signal("noMatchFound", Unset, Unset, Unset, Unset)>>

\* the task after search(): the signals it emitted, the blocks it read, and
\* its deletion asked for with deleteLater()
Finished(result, signals) ==
    [ o |-> [result.o EXCEPT !.life = "deleteLater"],
      signals |-> signals, blocks |-> result.blocks ]

NoScan(o) == [found |-> FALSE, o |-> o, blocks |-> <<>>]

Report(result) == Finished(result, Emitted(result))

ReportIfFound(result) == Finished(result, IF result.found THEN Emitted(result) ELSE <<>>)

\* a search() that would report an empty pattern as not found
search_EmptyIsMiss(o, buf) ==
    IF o.m_regExp = <<>> THEN Report(NoScan(o)) ELSE Report(Scans(o, buf))

\* a search() that would stay silent when nothing is found
search_SilentMiss(o, buf) ==
    IF o.m_regExp = <<>> THEN Finished(NoScan(o), <<>>)
    ELSE ReportIfFound(Scans(o, buf))

\* HistorySearch::search(): nothing for an empty pattern; else the scans and
\* the signal for their outcome; deleteLater() in both cases
search(o, buf) ==
    IF o.m_regExp = <<>> THEN Finished(NoScan(o), <<>>)
    ELSE Report(Scans(o, buf))

SearchInit(buffers) ==
    /\ buffer \in buffers
    /\ historySearch = NoTask
    /\ searchTrace = [blocks |-> <<>>, signals |-> <<>>]

\* a task is created for a pattern, a direction and a start position
HistorySearchCall(regExp, forwards, startColumn, startLine) ==
    /\ historySearch.life \in {"none", "deleted"}
    /\ historySearch' = HistorySearch(regExp, forwards, startColumn, startLine)
    /\ searchTrace' = [blocks |-> <<>>, signals |-> <<>>]
    /\ UNCHANGED <<buffer, tableVars, emuVars>>

\* the search() slot runs, once for a task
searchCall ==
    /\ historySearch.life = "created"
    /\ \E r \in {search(historySearch, buffer)} :
          /\ historySearch' = r.o
          /\ searchTrace' = [blocks |-> r.blocks, signals |-> r.signals]
    /\ UNCHANGED <<buffer, tableVars, emuVars>>

\* the event loop deletes the task that called deleteLater()
deferredDelete ==
    /\ historySearch.life = "deleteLater"
    /\ historySearch' = [historySearch EXCEPT !.life = "deleted"]
    /\ UNCHANGED <<buffer, searchTrace, tableVars, emuVars>>

foo == <<"f", "o", "o">>
bar == <<"b", "a", "r">>

\* the buffers searched within one block: the three lines foo, bar, foobar;
\* three lines whose only foo is on the middle line; lines with a blank line
\* and two matches on one line; a single line
ShortBuffers ==
    { Buffer(3, 0 :> foo @@ 1 :> bar @@ 2 :> (foo \o bar)),
      Buffer(3, 0 :> <<"x">> @@ 1 :> foo @@ 2 :> bar),
      Buffer(3, 0 :> bar @@ 2 :> (bar \o bar)),
      Buffer(1, 0 :> <<"o", "o">>) }

\* a buffer of more lines than one block holds
LongBuffers ==
    { Buffer(BlockSize + 2,
             0 :> foo @@ (BlockSize \div 2) :> bar @@ BlockSize :> foo
               @@ (BlockSize + 1) :> (foo \o bar)) }

Patterns == { <<>>, foo, bar, <<"o">>, <<"z">> }

LongPatterns == { <<>>, foo, bar, <<"z">> }

\* start positions inside the text of a line of the buffer
StartLines(buf) == {y \in DOMAIN buf.text \cup {1} : y < buf.total}
StartColumns(buf, y) ==
    0 .. (IF y \in DOMAIN buf.text THEN Len(buf.text[y]) ELSE 0)

NextSearch ==
    \/ \E regExp \in Patterns : \E forwards \in BOOLEAN :
         \E startLine \in StartLines(buffer) :
           \E startColumn \in StartColumns(buffer, startLine) :
             HistorySearchCall(regExp, forwards, startColumn, startLine)
    \/ searchCall
    \/ deferredDelete

NextSearchLong ==
    \/ \E regExp \in LongPatterns : \E forwards \in BOOLEAN :
         \E startLine \in StartLines(buffer) :
           \E startColumn \in StartColumns(buffer, startLine) :
             HistorySearchCall(regExp, forwards, startColumn, startLine)
    \/ searchCall
    \/ deferredDelete


-----------------------------------------------------------------------------
(* HistorySearch: what a search is to report                               *)

\* the task has run search()
Searched == historySearch.life \in {"deleteLater", "deleted"}

\* the columns of line y at which the pattern matches
LineMatches(buf, regExp, y) ==
    IF y \notin DOMAIN buf.text THEN {}
    ELSE {c \in 0 .. (Len(buf.text[y]) - Len(regExp)) :
             \A i \in 1 .. Len(regExp) : buf.text[y][c + i] = regExp[i]}

\* every match of a non-empty pattern in the buffer, as <<line, column>>
AllMatches(buf, regExp) ==
    UNION { {<<y, c>> : c \in LineMatches(buf, regExp, y)} : y \in DOMAIN buf.text }

Precedes(m, n) == m[1] < n[1] \/ (m[1] = n[1] /\ m[2] <= n[2])

FirstOf(S) == CHOOSE m \in S : \A n \in S : Precedes(m, n)

LastOf(S) == CHOOSE m \in S : \A n \in S : Precedes(n, m)

\* the matches at or after the start position, in scan order
AtOrAfterStart(buf, o) ==
    {m \in AllMatches(buf, o.m_regExp) :
        Precedes(<<o.m_startLine, o.m_startColumn>>, m)}

\* the task reported the match that starts at <<line, column>>
ReportsStart(m) ==
    /\ Len(searchTrace.signals) = 1
    /\ searchTrace.signals[1].name = "matchFound"
    /\ searchTrace.signals[1].startLine = m[1]
    /\ searchTrace.signals[1].startColumn = m[2]

\* C11: a forward search from (startColumn, startLine) reports the first
\* match in scan order: the lowest line at or after startLine that holds a
\* match, on startLine only a match that starts at or after startColumn, on a
\* later line the match of lowest column whatever the start column; also when
\* the half-scan spans more than one block.
C11_ForwardFirst ==
    ( /\ Searched
      /\ historySearch.m_forwards
      /\ historySearch.m_regExp # <<>>
      /\ AtOrAfterStart(buffer, historySearch) # {} )
    => ReportsStart(FirstOf(AtOrAfterStart(buffer, historySearch)))


\* C12: when no match starts at or after (startColumn, startLine), a forward
\* search wraps and reports the first match met scanning from line 0; the
\* first half-scan does not report a match of startLine that begins before
\* startColumn.
C12_ForwardWraps ==
    ( /\ Searched
      /\ historySearch.m_forwards
      /\ historySearch.m_regExp # <<>>
      /\ AtOrAfterStart(buffer, historySearch) = {}
      /\ AllMatches(buffer, historySearch.m_regExp) # {} )
    => /\ ReportsStart(FirstOf(AllMatches(buffer, historySearch.m_regExp)))
       /\ searchTrace.blocks[Len(searchTrace.blocks)].half = 2


\* the blocks read by a backward scan without a start-column floor (the call
\* search(0, 0, m_startColumn, m_startLine)) that hold matches below their end
\* boundary
Below(block) == {q \in block.starts : q < block.endPosition}

\* QRegularExpression's iterator yields matches that do not overlap: the
\* patterns searched for cannot overlap themselves
C13_Block(block) ==
    (~ historySearch.m_forwards /\ block.startColumn = 0 /\ Below(block) # {})
    => /\ block.matchStart \in Below(block)
       /\ \A q \in Below(block) : q <= block.matchStart

\* C13: a backward search without a start-column floor over a block that
\* holds several matches starting below the end boundary takes the last of
\* them, the one of greatest start offset below the boundary.
C13_BackwardLast ==
    \A i \in DOMAIN searchTrace.blocks : C13_Block(searchTrace.blocks[i])

C13_Witness ==
    \E i \in DOMAIN searchTrace.blocks :
        LET block == searchTrace.blocks[i]
        IN  /\ ~ historySearch.m_forwards
            /\ block.startColumn = 0
            /\ Cardinality(Below(block)) >= 2
            /\ \E q \in block.starts : q >= block.endPosition
            /\ block.matchStart = CHOOSE q \in Below(block) : \A r \in Below(block) : r <= q


\* the signals of a task that has run are one matchFound or one noMatchFound
OneSignal ==
    /\ Len(searchTrace.signals) = 1
    /\ searchTrace.signals[1].name \in {"matchFound", "noMatchFound"}

\* C14 as stated: every task, whatever its pattern, emits exactly one of
\* matchFound and noMatchFound before it is deleted.
C14_AnyPattern == Searched => OneSignal

\* search() is one turn of the event loop; its loops end because every block
\* of a half-scan reads at least one line more of the lines still to read
Progress(blocks, i) ==
    LET Size(b) == b.chunkEndLine - b.blockStartLine + 1
    IN  /\ Size(blocks[i]) >= 1
        /\ blocks[i].linesRead + Size(blocks[i])
               <= blocks[i].endLine - blocks[i].startLine + 1
        /\ blocks[i].linesRead =
               IF i > 1 /\ blocks[i - 1].half = blocks[i].half
               THEN blocks[i - 1].linesRead + Size(blocks[i - 1])
               ELSE 0

\* C14: every task with a non-empty pattern, whatever its direction and
\* start position, comes to its end, block after block, and has emitted
\* exactly one signal, matchFound or noMatchFound, when it is up for
\* deletion: never both, never one twice.
C14_ExactlyOneSignal ==
    (Searched /\ historySearch.m_regExp # <<>>)
    => /\ OneSignal
       /\ \A i \in DOMAIN searchTrace.blocks : Progress(searchTrace.blocks, i)

C14_Witness ==
    /\ historySearch.life = "deleted"
    /\ historySearch.m_regExp # <<>>
    /\ OneSignal
    /\ searchTrace.signals[1].name = "noMatchFound"
    /\ \E i \in DOMAIN searchTrace.blocks :
          searchTrace.blocks[i].half = 2 /\ searchTrace.blocks[i].linesRead > 0

\* C15: a task with an empty pattern asks the emulation for no lines and
\* emits neither signal: running it only schedules its own deletion.
C15_EmptyPattern ==
    [][ ( /\ historySearch.life = "created"
          /\ historySearch.m_regExp = <<>>
          /\ historySearch' # historySearch )
        => /\ historySearch' = [historySearch EXCEPT !.life = "deleteLater"]
           /\ searchTrace'.blocks = <<>>
           /\ searchTrace'.signals = <<>>
           /\ buffer' = buffer ]_vars

C15_Witness ==
    /\ historySearch.life = "deleted"
    /\ historySearch.m_regExp = <<>>
    /\ searchTrace = [blocks |-> <<>>, signals |-> <<>>]


-----------------------------------------------------------------------------
(* The update scheduler: its timers and the counters a flush resets        *)

\* C16: bufferedUpdate restarts the 10 ms timer on every call and starts the
\* 40 ms timer only when it is not pending; when either timer fires, showBulk
\* emits exactly one outputChanged and leaves both timers inactive, so that a
\* timer fires only for updates buffered since the flush before.
C16_SchedulerState ==
    [][ /\ lastCall'.op = "bufferedUpdate" =>
              /\ bulkTimer1' = BULK_TIMEOUT1
              /\ bulkTimer2' = IF bulkTimer2 = Inactive THEN BULK_TIMEOUT2
                               ELSE bulkTimer2
        /\ lastCall'.op \in {"timeout1", "timeout2"} =>
              /\ CountSignal(effects', "outputChanged") = 1
              /\ bulkTimer1' = Inactive
              /\ bulkTimer2' = Inactive
              /\ sched.batch >= 1 ]_vars

\* the 40 ms timer fired for two updates or more, the later of which found
\* it pending, and the 10 ms timer those updates restarted is stopped with it
C16_Witness ==
    /\ lastCall.op = "timeout2"
    /\ sched.lastFlush.batch >= 2
    /\ sched.lastFlush.sinceLast < BULK_TIMEOUT1
    /\ sched.lastFlush.sinceLast > 0
    /\ bulkTimer1 = Inactive
    /\ bulkTimer2 = Inactive

\* C17: after every flush the scrolled-lines and dropped-lines counters of
\* each of the two screens are zero, also those of a screen that scrolled and
\* was left by setScreen before the flush.
C17_FlushResetsAll ==
    sched.lastFlush.cause # "none" =>
        \A i \in {0, 1} : screen[i].scrolledLines = 0 /\ screen[i].droppedLines = 0


-----------------------------------------------------------------------------
(* HistorySearch: the lines read and the positions reported                *)

\* the line indices the blocks of one half-scan asked writeToStream for
Requested(blocks, half) ==
    UNION { blocks[i].blockStartLine .. blocks[i].chunkEndLine :
              i \in {j \in DOMAIN blocks : blocks[j].half = half} }

\* the half-scan that begins at the start line: the first one of a forward
\* search, the second one of a backward search
FromStartHalf == IF historySearch.m_forwards THEN 1 ELSE 2

\* C18: the lines searched are [0, totalLines), totalLines being lineCount():
\* for a start line in that range every line index asked of writeToStream is
\* in [0, totalLines); a search that finds nothing has read exactly
\* [startLine, totalLines) in the half-scan from the start line and exactly
\* [0, startLine) in the other half-scan.
C18_SearchRange ==
    ( /\ Searched
      /\ historySearch.m_regExp # <<>>
      /\ historySearch.m_startLine \in 0 .. (lineCount(buffer) - 1) )
    => /\ \A half \in {1, 2} :
             Requested(searchTrace.blocks, half) \subseteq 0 .. (lineCount(buffer) - 1)
       /\ searchTrace.signals[1].name = "noMatchFound" =>
             /\ Requested(searchTrace.blocks, FromStartHalf)
                    = historySearch.m_startLine .. (lineCount(buffer) - 1)
             /\ Requested(searchTrace.blocks, 3 - FromStartHalf)
                    = 0 .. (historySearch.m_startLine - 1)


\* C19: the decoder recording one start offset for each decoded line, the end
\* boundary of a block of more than one line read with an end column (> -1)
\* is the start offset of the last line of the block plus the end column; of
\* any other block it is the length of the decoded text.
C19_EndBoundary ==
    \A i \in DOMAIN searchTrace.blocks :
        LET block == searchTrace.blocks[i]
        IN  block.endPosition =
                IF block.lines > 1 /\ block.endColumn > -1
                THEN block.lastLineStart + block.endColumn
                ELSE block.size


\* line y of the buffer is the line of the block whose recorded start offset
\* is the greatest one not above the offset (the start offsets of the lines of
\* a block increase strictly)
LineOfOffset(block, y, offset) ==
    /\ y \in block.blockStartLine .. block.chunkEndLine
    /\ LineStart(buffer, block.blockStartLine, y) <= offset
    /\ \/ y = block.chunkEndLine
       \/ LineStart(buffer, block.blockStartLine, y + 1) > offset

\* C20: a match found at an offset of the text of a block is reported at the
\* line of the buffer whose recorded start offset is the greatest one not
\* above the offset of the match, and at the column that is the offset of the
\* match less that of the line; so is, on its own, the end of the match.  This
\* holds forwards and backwards and for a match in any block of a half-scan.
C20_Translation ==
    (Searched /\ Len(searchTrace.signals) = 1
              /\ searchTrace.signals[1].name = "matchFound")
    => LET block == searchTrace.blocks[Len(searchTrace.blocks)]
           found == searchTrace.signals[1]
           matchEnd == block.matchStart + Len(historySearch.m_regExp) - 1
       IN  /\ LineOfOffset(block, found.startLine, block.matchStart)
           /\ found.startColumn = block.matchStart
                 - LineStart(buffer, block.blockStartLine, found.startLine)
           /\ LineOfOffset(block, found.endLine, matchEnd)
           /\ found.endColumn = matchEnd
                 - LineStart(buffer, block.blockStartLine, found.endLine)


-----------------------------------------------------------------------------
(* The marker sniff, the completeness of a search, the binding of windows  *)

\* C21: receiveData detects the marker 0x18 "B00" wherever it lies in the raw
\* chunk, also when "B00" are the last three bytes of the chunk, and whatever
\* the bytes decode to.
C21_DetectedAnywhere ==
    (lastCall.op = "receiveData" /\ ContainsMarker(lastCall.text))
    => CountSignal(effects, "zmodemDetected") >= 1


\* C22: a task with a non-empty pattern and a start position inside the
\* buffer emits noMatchFound only if no line of the buffer holds a match: when
\* some line holds one, matchFound is emitted, forwards and backwards, for any
\* start column, also over a buffer of more than one block, and also when the
\* only match is on the start line before the start column.
C22_Complete ==
    ( /\ Searched
      /\ historySearch.m_regExp # <<>>
      /\ historySearch.m_startLine \in 0 .. (lineCount(buffer) - 1)
      /\ AllMatches(buffer, historySearch.m_regExp) # {} )
    => /\ Len(searchTrace.signals) = 1
       /\ searchTrace.signals[1].name = "matchFound"


\* C23: after any interleaving of createWindow and setScreen (and of the
\* other operations), the active screen is one of the two screens of the
\* emulation and every window of _windows is bound to the active screen.
C23_WindowsBound ==
    /\ currentScreen \in DOMAIN screen
    /\ DOMAIN screen = {0, 1}
    /\ \A w \in 1 .. Len(windows) : windows[w].screen = currentScreen

\* a window was created while the second screen was the active one, next to
\* a window that exists already, and both show the second screen
C23_Witness ==
    /\ lastCall.op = "createWindow"
    /\ currentScreen = 1
    /\ Len(windows) = 2
    /\ \A w \in 1 .. 2 : windows[w].screen = 1

-----------------------------------------------------------------------------
(* Specifications                                                          *)

\* outside a search the buffer is the blank default screen and there is no task
Init == TableInit /\ EmulationInit /\ SearchInit({Buffer(DefaultLines, <<>>)})

\* the intern table
SpecTable == Init /\ [][NextTable]_vars

\* the session controller, within one turn of the event loop
NextEmu ==
    \/ createWindowCall
    \/ \E n \in ScreenIndexInputs : setScreenCall(n)
    \/ \E l \in LinesInputs : \E c \in ColumnsInputs : setImageSizeCall(l, c)
    \/ \E t \in HistoryInputs : setHistoryCall(t)
    \/ \E text \in EmuChunks : receiveDataCall(text)

SpecEmu == Init /\ [][NextEmu]_vars

\* the update scheduler over time
NextSched ==
    \/ bufferedUpdateCall
    \/ bulkTimer1Timeout
    \/ bulkTimer2Timeout
    \/ Tick

SpecSched == Init /\ [][NextSched]_vars

\* ingestion of raw chunks
NextIngest ==
    \E text \in Chunks : receiveDataCall(text)

SpecIngest == Init /\ [][NextIngest]_vars

\* a search task over a buffer that one block holds
InitSearch == TableInit /\ EmulationInit /\ SearchInit(ShortBuffers)

SpecSearch == InitSearch /\ [][NextSearch]_vars

\* a search task over a buffer of more than one block
InitSearchLong == TableInit /\ EmulationInit /\ SearchInit(LongBuffers)

SpecSearchLong == InitSearchLong /\ [][NextSearchLong]_vars

\* output that scrolls a screen of one line, a switch of screen, and time
NextFlush ==
    \/ setImageSizeCall(1, DefaultColumns)
    \/ receiveDataCall(<<10>>)
    \/ \E n \in {0, 1} : setScreenCall(n)
    \/ bulkTimer1Timeout
    \/ Tick

SpecFlush == Init /\ [][NextFlush]_vars

Next == NextTable \/ NextEmu \/ NextSched \/ NextIngest \/ NextFlush \/ NextSearch \/ NextSearchLong

Spec == Init /\ [][Next]_vars

====
